---- MODULE Spec2Model ----
(***************************************************************************)
(* Model of examples/websocket_client.py: the WandererKillsClient object,  *)
(* the asyncio tasks that call its coroutines, the receive-loop tasks it   *)
(* spawns, and the websocket transports it opens.                          *)
(*                                                                         *)
(* One step of the model is one atomic stretch of a coroutine: the code    *)
(* between two awaits.  A frame is handed to the transport when send() is  *)
(* called; the await on send(), connect(), recv() and close() is a point   *)
(* where other tasks run.                                                  *)
(***************************************************************************)
EXTENDS Integers, Sequences, FiniteSets, TLC

\* ---------------------------------------------------------------- bounds
MaxConn  == 2   \* transports opened over the life of the client object
MaxCalls == 3   \* coroutine calls issued on the client object
MaxPush  == 2   \* unsolicited frames the peers push, over all transports
MaxQueue == 2   \* frames a transport buffers for recv()

\* The asyncio tasks that call the client: example()'s main task, which may
\* call any coroutine, and a task created beside it, which calls what the
\* example's created tasks call: disconnect() (the signal handler's task)
\* and unsubscribe_from_systems() (delayed_unsubscribe).
Tasks == {"main", "aux"}
MainTasks == {"main"}

\* System ids of the example (Jita, Dodixie).
Systems == {30000142, 30002659}
\* The key lists passed to subscribe/unsubscribe: one id (line 260), several
\* ids (line 247).
KeyLists == {{30000142}, Systems}

\* The hard-coded "ref" of each outbound command.
JoinRef        == 1
SubscribeRef   == 2
UnsubscribeRef == 3
StatusRef      == 4
LeaveRef       == 5

VARIABLES
    websocket,        \* self.websocket: 0 is None, else the index of a transport
    running,          \* self.running
    subscriptions,    \* self.subscriptions
    subscription_id,  \* self.subscription_id: 0 is None, c stands for "sub-c"
    conns,            \* the transports opened so far, in order of opening
    listeners,        \* the _listen_for_messages task of each connect() call
    tasks,            \* the calling tasks: position in the coroutine they run
    npush,            \* number of frames pushed by the peers (bounded by MaxPush)
    expected,         \* history: union/difference of the keys, in call order
    overlap,          \* history: two subscribe/unsubscribe calls overlapped
    closed,           \* history: a joined session has left the running state
    dd,               \* history: disconnect() calls made in succession
    late              \* history: the set was updated while running was false

vars == <<websocket, running, subscriptions, subscription_id, conns, listeners,
          tasks, npush, expected, overlap, closed, dd, late>>

client == <<websocket, running, subscriptions, subscription_id>>
history == <<expected, overlap, closed, dd, late>>

\* ---------------------------------------------------------------- frames
\* An outbound command as json.dumps() writes it (topic is always
\* "killmails:lobby").
OutFrame(event, ref) == [event |-> event, ref |-> ref]

join_message  == OutFrame("phx_join", JoinRef)
leave_message == OutFrame("phx_leave", LeaveRef)
subscribe_message   == OutFrame("subscribe_systems", SubscribeRef)
unsubscribe_message == OutFrame("unsubscribe_systems", UnsubscribeRef)
status_message      == OutFrame("get_status", StatusRef)

\* An inbound raw frame: text that is JSON for an object, or is not JSON.
\* sid is payload.response.subscription_id (0 when absent).
Reply(ref, status, sid) ==
    [raw |-> "json", event |-> "phx_reply", ref |-> ref, status |-> status, sid |-> sid]
Push(event) ==
    [raw |-> "json", event |-> event, ref |-> 0, status |-> "none", sid |-> 0]
Garbage ==
    [raw |-> "garbage", event |-> "none", ref |-> 0, status |-> "none", sid |-> 0]
\* No message (None).
NoMsg ==
    [raw |-> "none", event |-> "none", ref |-> 0, status |-> "none", sid |-> 0]

PushEvents == {"killmail_update", "kill_count_update", "presence_diff"}
Statuses == {"ok", "error"}

\* json.loads: raises JSONDecodeError on text that is not JSON.
json_loads(frame) ==
    IF frame.raw = "json" THEN [ok |-> TRUE, message |-> frame]
    ELSE [ok |-> FALSE, message |-> frame]

\* connect()'s test of the first frame it receives.
JoinAccepted(message) ==
    message.event = "phx_reply" /\ message.status = "ok"

\* ------------------------------------------------------------ transports
NewConn == [open |-> TRUE, joined |-> FALSE, inbox |-> <<>>, sent |-> <<>>,
            acked |-> 0]

\* The transports opened and the receive loops created so far.
Conns == 1..Len(conns)
Listeners == 1..Len(listeners)

\* websocket.send(): hands the frame to an open transport, raises
\* ConnectionClosed on a closed one.
SendOk(c) == conns[c].open

Sent(c, frame) == [conns EXCEPT ![c].sent = Append(@, frame)]

\* websocket.recv() is ready: a buffered frame, or the end of the transport.
RecvFrame(c)  == conns[c].inbox # <<>>
RecvClosed(c) == conns[c].inbox = <<>> /\ ~conns[c].open

\* websocket.recv() raises when another coroutine already waits in recv()
\* on the same transport.
RecvBusy(c) ==
    \/ \E t \in Tasks : tasks[t].pc = "c_recv" /\ tasks[t].ws = c
    \/ \E l \in Listeners : listeners[l].pc = "recv" /\ listeners[l].ws = c

\* ----------------------------------------------------------------- tasks
NoRet == [sid |-> 0, subs |-> {}, connected |-> FALSE]
\* A calling task: n counts the calls it has made; op is the coroutine of
\* its last call, pc its position in it ("idle" once it has returned or
\* raised), keys the system ids passed, cid the transport its connect()
\* opened, ws the transport its recv() waits on; out is how the call ended
\* ("return", or the error raised) and ret the value returned.
IdleTask == [n |-> 0, pc |-> "idle", op |-> "none", keys |-> {}, ws |-> 0,
             cid |-> 0, out |-> "none", ret |-> NoRet]

\* A call starts: the task enters the coroutine `op`.
Enter(t, op, pc, keys) ==
    [tasks EXCEPT ![t] = [n |-> tasks[t].n + 1, pc |-> pc, op |-> op,
                          keys |-> keys, ws |-> 0, cid |-> 0, out |-> "none",
                          ret |-> NoRet]]

\* A call ends: it returns `ret` (out = "return") or raises (out names it).
Leave(tk, t, out, ret) ==
    [tk EXCEPT ![t] = [n |-> tk[t].n, pc |-> "idle", op |-> tk[t].op,
                       keys |-> {}, ws |-> 0, cid |-> 0, out |-> out,
                       ret |-> ret]]

\* Number of coroutine calls issued so far, by all tasks.
calls == tasks["main"].n + tasks["aux"].n

CanCall(t) == tasks[t].pc = "idle" /\ calls < MaxCalls

\* A receive-loop task: its position, the transport its recv() waits on,
\* the message its last iteration passed to _handle_message (NoMsg at the
\* top of the next one), and whether it has logged an undecodable frame.
\* stopped: disconnect() has cleared running while this loop was alive.
NoListener == [pc |-> "none", ws |-> 0, msg |-> NoMsg, skipped |-> FALSE,
               stopped |-> FALSE]

DDNone == [by |-> "none", n |-> 0, done |-> 0, leaves1 |-> 0, leaves2 |-> 0,
           tries |-> 0]

\* The session is joined: running on a transport whose join was accepted.
Joined == running /\ websocket # 0 /\ conns[websocket].joined

Init ==
    /\ websocket = 0
    /\ running = FALSE
    /\ subscriptions = {}
    /\ subscription_id = 0
    /\ conns = <<>>
    /\ listeners = <<>>
    /\ tasks = [t \in Tasks |-> IdleTask]
    /\ npush = 0
    /\ expected = {}
    /\ overlap = FALSE
    /\ closed = FALSE
    /\ dd = DDNone
    /\ late = FALSE

\* ------------------------------------------------------------- connect()
\* The call, up to the await on websockets.connect(uri).
ConnectCall(t) ==
    /\ CanCall(t)
    /\ tasks' = Enter(t, "connect", "c_open", {})
    /\ UNCHANGED npush
    /\ dd' = DDNone
    /\ UNCHANGED <<client, conns, listeners, expected, overlap, closed, late>>

\* websockets.connect() raises: logged and re-raised.
ConnectRefused(t) ==
    /\ tasks[t].pc = "c_open"
    /\ tasks' = Leave(tasks, t, "ConnectionFailure", NoRet)
    /\ UNCHANGED <<client, conns, listeners, npush, history>>

\* websockets.connect() returns a transport: self.websocket and
\* self.running are assigned and the join command is sent.
ConnectOpened(t) ==
    /\ tasks[t].pc = "c_open"
    /\ Len(conns) < MaxConn
    /\ conns' = Append(conns, [NewConn EXCEPT !.sent = <<join_message>>])
    /\ listeners' = Append(listeners, NoListener)
    /\ websocket' = Len(conns) + 1
    /\ running' = TRUE
    /\ tasks' = [tasks EXCEPT ![t].pc = "c_send", ![t].cid = Len(conns) + 1]
    /\ UNCHANGED <<subscriptions, subscription_id, npush, history>>

\* The await on send() is over: recv() is called on self.websocket.
ConnectSendDone(t) ==
    /\ tasks[t].pc = "c_send"
    /\ IF RecvBusy(websocket)
       THEN tasks' = Leave(tasks, t, "ConnectionFailure", NoRet)
       ELSE tasks' = [tasks EXCEPT ![t].pc = "c_recv", ![t].ws = websocket]
    /\ UNCHANGED <<client, conns, listeners, npush, history>>

\* recv() returns a frame that passes the test of line 65: the
\* subscription id is stored, the receive loop is started, the payload is
\* returned.
ConnectJoined(t) ==
    /\ tasks[t].pc = "c_recv"
    /\ LET c == tasks[t].ws
           frame == Head(conns[c].inbox)
       IN /\ RecvFrame(c)
          /\ json_loads(frame).ok
          /\ JoinAccepted(json_loads(frame).message)
          /\ conns' = [conns EXCEPT ![c].inbox = Tail(@), ![c].joined = TRUE]
          /\ subscription_id' = frame.sid
          /\ listeners' = [listeners EXCEPT ![tasks[t].cid].pc = "top"]
          /\ tasks' = Leave(tasks, t, "return", [NoRet EXCEPT !.sid = frame.sid])
    /\ UNCHANGED <<websocket, running, subscriptions, npush, history>>

\* recv() returns any other frame (not JSON, not a phx_reply, a reply whose
\* status is not "ok"): connect() raises.
ConnectRejected(t) ==
    /\ tasks[t].pc = "c_recv"
    /\ LET c == tasks[t].ws
           frame == Head(conns[c].inbox)
       IN /\ RecvFrame(c)
          /\ ~(json_loads(frame).ok /\ JoinAccepted(json_loads(frame).message))
          /\ conns' = [conns EXCEPT ![c].inbox = Tail(@)]
          /\ tasks' = Leave(tasks, t, "ConnectionFailure", NoRet)
    /\ UNCHANGED <<client, listeners, npush, history>>

\* recv() raises ConnectionClosed: connect() raises.
ConnectLost(t) ==
    /\ tasks[t].pc = "c_recv"
    /\ RecvClosed(tasks[t].ws)
    /\ tasks' = Leave(tasks, t, "ConnectionFailure", NoRet)
    /\ UNCHANGED <<client, conns, listeners, npush, history>>

\* -------------------------------------------------- _listen_for_messages
\* Top of the loop with running set: recv() is called on self.websocket.
\* (When another coroutine waits in recv() on it the call raises, the
\* error is logged at line 95 and the loop comes back here: no change.)
ListenNext(l) ==
    /\ l \in Listeners
    /\ listeners[l].pc = "top"
    /\ running /\ websocket # 0
    /\ ~RecvBusy(websocket)
    /\ listeners' = [listeners EXCEPT ![l].pc = "recv", ![l].ws = websocket,
                                       ![l].msg = NoMsg]
    /\ UNCHANGED <<client, conns, tasks, npush, history>>

\* Top of the loop with running cleared: the loop ends, finally: runs.
ListenExit(l) ==
    /\ l \in Listeners
    /\ listeners[l].pc = "top"
    /\ ~(running /\ websocket # 0)
    /\ listeners' = [listeners EXCEPT ![l].pc = "done", ![l].ws = 0,
                                       ![l].msg = NoMsg]
    /\ running' = FALSE
    /\ UNCHANGED <<websocket, subscriptions, subscription_id, conns, tasks,
                   npush, history>>

\* Faulty variant of ListenFrame: a frame that is not JSON ends the loop
\* (the JSONDecodeError reaches the outer handler and finally: runs).
ListenFrame_DecodeFatal(l) ==
    /\ l \in Listeners
    /\ listeners[l].pc = "recv"
    /\ LET c == listeners[l].ws
           frame == Head(conns[c].inbox)
       IN /\ RecvFrame(c)
          /\ conns' = [conns EXCEPT ![c].inbox = Tail(@)]
          /\ IF json_loads(frame).ok
             THEN /\ listeners' = [listeners EXCEPT ![l].pc = "top", ![l].ws = 0,
                                       ![l].msg = json_loads(frame).message]
                  /\ UNCHANGED running
             ELSE /\ listeners' = [listeners EXCEPT ![l].pc = "done", ![l].ws = 0,
                                       ![l].skipped = TRUE]
                  /\ running' = FALSE
    /\ UNCHANGED <<websocket, subscriptions, subscription_id, tasks, npush, history>>

\* Faulty variant of HandleMessage: a failed reply to a subscribe or an
\* unsubscribe command drops the tracked systems.
HandleMessage_Rollback(message, subs) ==
    IF message.event = "phx_reply" /\ message.status # "ok"
       /\ message.ref \in {SubscribeRef, UnsubscribeRef}
    THEN {}
    ELSE subs

\* _handle_message: the subscriptions set after the message is handled.
\* Every branch (killmail_update, kill_count_update, phx_reply with any
\* status) only logs, and any other event is ignored.
HandleMessage(message, subs) ==
    IF message.event \in {"killmail_update", "kill_count_update", "phx_reply"}
    THEN subs
    ELSE subs

\* Faulty variant of ListenFrame: a reply with a status other than "ok" and
\* an event without a branch raise out of the loop.
ListenFrame_StrictDispatch(l) ==
    /\ l \in Listeners
    /\ listeners[l].pc = "recv"
    /\ LET c == listeners[l].ws
           frame == Head(conns[c].inbox)
           fatal == \/ frame.event = "phx_reply" /\ frame.status # "ok"
                    \/ frame.event = "presence_diff"
       IN /\ RecvFrame(c)
          /\ conns' = [conns EXCEPT ![c].inbox = Tail(@)]
          /\ listeners' =
                IF fatal
                THEN [listeners EXCEPT ![l].pc = "done", ![l].ws = 0,
                                       ![l].msg = frame]
                ELSE IF json_loads(frame).ok
                THEN [listeners EXCEPT ![l].pc = "top", ![l].ws = 0,
                                       ![l].msg = json_loads(frame).message]
                ELSE [listeners EXCEPT ![l].pc = "top", ![l].ws = 0,
                                       ![l].skipped = TRUE]
          /\ running' = (running /\ ~fatal)
    /\ UNCHANGED <<websocket, subscriptions, subscription_id, tasks, npush,
                   history>>

\* Faulty variant of ListenFrame: the loop takes the newest frame queued on
\* the transport, not the oldest.
ListenFrame_NewestFirst(l) ==
    /\ l \in Listeners
    /\ listeners[l].pc = "recv"
    /\ LET c == listeners[l].ws
           n == Len(conns[c].inbox)
           frame == conns[c].inbox[n]
       IN /\ RecvFrame(c)
          /\ conns' = [conns EXCEPT ![c].inbox = SubSeq(@, 1, n - 1)]
          /\ listeners' =
                IF json_loads(frame).ok
                THEN [listeners EXCEPT ![l].pc = "top", ![l].ws = 0,
                                       ![l].msg = json_loads(frame).message]
                ELSE [listeners EXCEPT ![l].pc = "top", ![l].ws = 0,
                                       ![l].skipped = TRUE]
    /\ UNCHANGED <<client, tasks, npush, history>>

\* recv() returns a frame: json.loads, then _handle_message; a frame that
\* is not JSON is logged (line 93) and the loop goes on.
ListenFrame(l) ==
    /\ l \in Listeners
    /\ listeners[l].pc = "recv"
    /\ LET c == listeners[l].ws
           frame == Head(conns[c].inbox)
       IN /\ RecvFrame(c)
          /\ conns' = [conns EXCEPT ![c].inbox = Tail(@)]
          /\ IF json_loads(frame).ok
             THEN /\ listeners' = [listeners EXCEPT ![l].pc = "top", ![l].ws = 0,
                                       ![l].msg = json_loads(frame).message]
                  /\ subscriptions' =
                        HandleMessage(json_loads(frame).message, subscriptions)
             ELSE /\ listeners' = [listeners EXCEPT ![l].pc = "top", ![l].ws = 0,
                                       ![l].skipped = TRUE]
                  /\ UNCHANGED subscriptions
    /\ UNCHANGED <<websocket, running, subscription_id, tasks, npush, history>>

\* recv() raises ConnectionClosed: break, finally: clears running.
ListenClosed(l) ==
    /\ l \in Listeners
    /\ listeners[l].pc = "recv"
    /\ RecvClosed(listeners[l].ws)
    /\ listeners' = [listeners EXCEPT ![l].pc = "break", ![l].ws = 0,
                                       ![l].msg = NoMsg]
    /\ running' = FALSE
    /\ closed' = (closed \/ Joined)
    /\ UNCHANGED <<websocket, subscriptions, subscription_id, conns, tasks,
                   npush, expected, overlap, dd, late>>

\* ------------------------------------------------------------------ peer
\* The server answers the oldest command it has not answered yet.
PeerReply(c, status) ==
    /\ c \in Conns
    /\ conns[c].open
    /\ conns[c].acked < Len(conns[c].sent)
    /\ Len(conns[c].inbox) < MaxQueue
    /\ LET cmd == conns[c].sent[conns[c].acked + 1]
           sid == IF cmd.event = "phx_join" /\ status = "ok" THEN c ELSE 0
       IN conns' = [conns EXCEPT ![c].inbox = Append(@, Reply(cmd.ref, status, sid)),
                                 ![c].acked = @ + 1]
    /\ UNCHANGED <<client, listeners, tasks, npush, history>>

\* The server pushes an event, or the transport delivers text that is not
\* JSON.
PeerPush(c, frame) ==
    /\ c \in Conns
    /\ conns[c].open
    /\ npush < MaxPush
    /\ Len(conns[c].inbox) < MaxQueue
    /\ conns' = [conns EXCEPT ![c].inbox = Append(@, frame)]
    /\ npush' = npush + 1
    /\ UNCHANGED <<client, listeners, tasks, history>>

\* The peer closes the transport, or the transport fails.
PeerClose(c) ==
    /\ c \in Conns
    /\ conns[c].open
    /\ conns' = [conns EXCEPT ![c].open = FALSE]
    /\ UNCHANGED <<client, listeners, tasks, npush, history>>

\* -------------------------------------------------------------- commands
\* Faulty variant of SubscribeUpdate: the set is assigned, not updated.
SubscribeUpdate_Replace(subs, keys) == keys

\* self.subscriptions.update(system_ids) / .difference_update(system_ids)
SubscribeUpdate(subs, keys)   == subs \cup keys
UnsubscribeUpdate(subs, keys) == subs \ keys

\* Another subscribe/unsubscribe call is between its send and its update.
InFlight(t) == \E u \in Tasks \ {t} : tasks[u].pc \in {"s_send", "u_send"}

\* Faulty variant of NotConnected: the guard tests the transport only.
NotConnected_TransportOnly == websocket = 0

\* A command's guard (lines 148, 168, 188).
NotConnected == websocket = 0 \/ ~running

\* Faulty variant of SubscribeCall: the keys are added before send() is
\* called, so a send that raises leaves them in the set.
SubscribeCall_UpdateFirst(t, keys) ==
    /\ CanCall(t)
    /\ UNCHANGED npush
    /\ dd' = DDNone
    /\ IF NotConnected
       THEN /\ tasks' = Leave(Enter(t, "subscribe", "idle", keys), t, "NotConnected", NoRet)
            /\ UNCHANGED <<conns, expected, overlap, subscriptions>>
       ELSE IF ~SendOk(websocket)
       THEN /\ tasks' = Leave(Enter(t, "subscribe", "idle", keys), t, "ConnectionClosed", NoRet)
            /\ subscriptions' = SubscribeUpdate(subscriptions, keys)
            /\ UNCHANGED <<conns, expected, overlap>>
       ELSE /\ conns' = Sent(websocket, subscribe_message)
            /\ tasks' = Enter(t, "subscribe", "s_send", keys)
            /\ expected' = expected \cup keys
            /\ overlap' = (overlap \/ InFlight(t))
            /\ UNCHANGED subscriptions
    /\ UNCHANGED <<websocket, running, subscription_id, listeners, closed, late>>

\* subscribe_to_systems, up to the await on send(): the guard, then the
\* frame is handed to the transport.
SubscribeCall(t, keys) ==
    /\ CanCall(t)
    /\ UNCHANGED npush
    /\ dd' = DDNone
    /\ IF NotConnected
       THEN /\ tasks' = Leave(Enter(t, "subscribe", "idle", keys), t, "NotConnected", NoRet)
            /\ UNCHANGED <<conns, expected, overlap>>
       ELSE IF ~SendOk(websocket)
       THEN /\ tasks' = Leave(Enter(t, "subscribe", "idle", keys), t, "ConnectionClosed", NoRet)
            /\ UNCHANGED <<conns, expected, overlap>>
       ELSE /\ conns' = Sent(websocket, subscribe_message)
            /\ tasks' = Enter(t, "subscribe", "s_send", keys)
            /\ expected' = expected \cup keys
            /\ overlap' = (overlap \/ InFlight(t))
    /\ UNCHANGED <<client, listeners, closed, late>>

\* After the await: the keys are added and the set is returned.
SubscribeDone(t) ==
    /\ tasks[t].pc = "s_send"
    /\ subscriptions' = SubscribeUpdate(subscriptions, tasks[t].keys)
    /\ tasks' = Leave(tasks, t, "return", [NoRet EXCEPT !.subs = subscriptions'])
    /\ late' = (late \/ ~running)
    /\ UNCHANGED <<websocket, running, subscription_id, conns, listeners,
                   npush, expected, overlap, closed, dd>>

\* unsubscribe_from_systems, up to the await on send().
UnsubscribeCall(t, keys) ==
    /\ CanCall(t)
    /\ UNCHANGED npush
    /\ dd' = DDNone
    /\ IF NotConnected
       THEN /\ tasks' = Leave(Enter(t, "unsubscribe", "idle", keys), t, "NotConnected", NoRet)
            /\ UNCHANGED <<conns, expected, overlap>>
       ELSE IF ~SendOk(websocket)
       THEN /\ tasks' = Leave(Enter(t, "unsubscribe", "idle", keys), t, "ConnectionClosed", NoRet)
            /\ UNCHANGED <<conns, expected, overlap>>
       ELSE /\ conns' = Sent(websocket, unsubscribe_message)
            /\ tasks' = Enter(t, "unsubscribe", "u_send", keys)
            /\ expected' = expected \ keys
            /\ overlap' = (overlap \/ InFlight(t))
    /\ UNCHANGED <<client, listeners, closed, late>>

\* After the await: the keys are removed and the set is returned.
UnsubscribeDone(t) ==
    /\ tasks[t].pc = "u_send"
    /\ subscriptions' = UnsubscribeUpdate(subscriptions, tasks[t].keys)
    /\ tasks' = Leave(tasks, t, "return", [NoRet EXCEPT !.subs = subscriptions'])
    /\ late' = (late \/ ~running)
    /\ UNCHANGED <<websocket, running, subscription_id, conns, listeners,
                   npush, expected, overlap, closed, dd>>

\* get_status, up to the await on send().
GetStatusCall(t) ==
    /\ CanCall(t)
    /\ UNCHANGED npush
    /\ dd' = DDNone
    /\ IF NotConnected
       THEN /\ tasks' = Leave(Enter(t, "get_status", "idle", {}), t, "NotConnected", NoRet)
            /\ UNCHANGED conns
       ELSE IF ~SendOk(websocket)
       THEN /\ tasks' = Leave(Enter(t, "get_status", "idle", {}), t, "ConnectionClosed", NoRet)
            /\ UNCHANGED conns
       ELSE /\ conns' = Sent(websocket, status_message)
            /\ tasks' = Enter(t, "get_status", "g_send", {})
    /\ UNCHANGED <<client, listeners, expected, overlap, closed, late>>

\* After the await: the local snapshot is returned.
GetStatusDone(t) ==
    /\ tasks[t].pc = "g_send"
    /\ tasks' = Leave(tasks, t, "return",
                      [sid |-> subscription_id, subs |-> subscriptions,
                       connected |-> running])
    /\ UNCHANGED <<client, conns, listeners, npush, history>>

\* ---------------------------------------------------------- disconnect()
\* History of disconnect() calls made in succession by one task, starting
\* on a joined session with no other call in progress: calls started (n),
\* calls returned (done), leave frames the first and the second call handed
\* to the transport (leaves1, leaves2), sends the second call attempted
\* (tries).  Any other call ends the succession.
DDCall(t, tried, sent) ==
    IF dd.by = t /\ dd.n = 1 /\ dd.done = 1
    THEN [dd EXCEPT !.n = 2, !.done = IF sent THEN 1 ELSE 2,
                    !.leaves2 = IF sent THEN 1 ELSE 0,
                    !.tries = IF tried THEN 1 ELSE 0]
    ELSE IF Joined /\ \A u \in Tasks \ {t} : tasks[u].pc = "idle"
    THEN [DDNone EXCEPT !.by = t, !.n = 1, !.done = IF sent THEN 0 ELSE 1,
                        !.leaves1 = IF sent THEN 1 ELSE 0]
    ELSE DDNone

\* disconnect(), up to the await on send(): running is cleared; with a
\* transport, the leave command is sent; an error of send() is swallowed
\* by the bare except and the call returns.
DisconnectCall(t) ==
    /\ CanCall(t)
    /\ UNCHANGED npush
    /\ running' = FALSE
    /\ closed' = (closed \/ Joined)
    /\ IF websocket = 0
       THEN /\ tasks' = Leave(Enter(t, "disconnect", "idle", {}), t, "return", NoRet)
            /\ dd' = DDCall(t, FALSE, FALSE)
            /\ UNCHANGED conns
       ELSE IF ~SendOk(websocket)
       THEN /\ tasks' = Leave(Enter(t, "disconnect", "idle", {}), t, "return", NoRet)
            /\ dd' = DDCall(t, TRUE, FALSE)
            /\ UNCHANGED conns
       ELSE /\ conns' = Sent(websocket, leave_message)
            /\ tasks' = Enter(t, "disconnect", "d_send", {})
            /\ dd' = DDCall(t, TRUE, TRUE)
    /\ listeners' = [l \in Listeners |->
                        IF listeners[l].pc \in {"top", "recv"}
                        THEN [listeners[l] EXCEPT !.stopped = TRUE]
                        ELSE listeners[l]]
    /\ UNCHANGED <<websocket, subscriptions, subscription_id, expected, overlap,
                   late>>

\* Faulty variant of DisconnectClose: close() is not called.
DisconnectClose_Skipped(t) ==
    /\ tasks[t].pc = "d_send"
    /\ tasks' = [tasks EXCEPT ![t].pc = "d_close"]
    /\ UNCHANGED <<client, conns, listeners, npush, history>>

\* After the await on send(): close() is called on self.websocket.
DisconnectClose(t) ==
    /\ tasks[t].pc = "d_send"
    /\ conns' = [conns EXCEPT ![websocket].open = FALSE]
    /\ tasks' = [tasks EXCEPT ![t].pc = "d_close"]
    /\ UNCHANGED <<client, listeners, npush, history>>

\* After the await on close() (its errors are swallowed): return.
DisconnectDone(t) ==
    /\ tasks[t].pc = "d_close"
    /\ tasks' = Leave(tasks, t, "return", NoRet)
    /\ dd' = IF dd.by = t THEN [dd EXCEPT !.done = @ + 1] ELSE dd
    /\ UNCHANGED <<client, conns, listeners, npush, expected, overlap, closed, late>>

\* ------------------------------------------------------- specification
InFrames == {Push(e) : e \in PushEvents} \cup {Garbage}

Next ==
    \/ \E t \in MainTasks : ConnectCall(t)
    \/ \E t \in Tasks : ConnectRefused(t)
    \/ \E t \in Tasks : ConnectOpened(t)
    \/ \E t \in Tasks : ConnectSendDone(t)
    \/ \E t \in Tasks : ConnectJoined(t)
    \/ \E t \in Tasks : ConnectRejected(t)
    \/ \E t \in Tasks : ConnectLost(t)
    \/ \E t \in MainTasks, keys \in KeyLists : SubscribeCall(t, keys)
    \/ \E t \in Tasks : SubscribeDone(t)
    \/ \E t \in Tasks, keys \in KeyLists : UnsubscribeCall(t, keys)
    \/ \E t \in Tasks : UnsubscribeDone(t)
    \/ \E t \in MainTasks : GetStatusCall(t)
    \/ \E t \in Tasks : GetStatusDone(t)
    \/ \E t \in Tasks : DisconnectCall(t)
    \/ \E t \in Tasks : DisconnectClose(t)
    \/ \E t \in Tasks : DisconnectDone(t)
    \/ \E l \in 1..MaxConn : ListenNext(l)
    \/ \E l \in 1..MaxConn : ListenExit(l)
    \/ \E l \in 1..MaxConn : ListenFrame(l)
    \/ \E l \in 1..MaxConn : ListenClosed(l)
    \/ \E c \in 1..MaxConn, status \in Statuses : PeerReply(c, status)
    \/ \E c \in 1..MaxConn, frame \in InFrames : PeerPush(c, frame)
    \/ \E c \in 1..MaxConn : PeerClose(c)

Spec == Init /\ [][Next]_vars

\* ------------------------------------------------------------ properties
\* Steps of a calling task: it issues a call; its call ends (returns or
\* raises), possibly in the step that issued it.
Called(t)   == tasks'[t].n = tasks[t].n + 1
Returned(t) == tasks'[t].pc = "idle" /\ (Called(t) \/ tasks[t].pc # "idle")

Commands == {"subscribe", "unsubscribe", "get_status"}
CommandPcs == {"s_send", "u_send", "g_send"}

\* Some connect() has succeeded.
EverJoined == \E c \in Conns : conns[c].joined

\* C1: whenever no subscribe/unsubscribe call is in progress and no two of
\* them have overlapped, self.subscriptions is the set obtained from the
\* empty set by applying union (subscribe) and difference (unsubscribe) of
\* the keys of the calls whose send succeeded, in call order; and a call
\* returns the value of self.subscriptions at the moment it returns.
C1_OptimisticTracking ==
    /\ [](  (~overlap /\ \A t \in Tasks : tasks[t].pc \notin {"s_send", "u_send"})
         => subscriptions = expected)
    /\ [][\A t \in Tasks :
            (tasks[t].pc \in {"s_send", "u_send"} /\ Returned(t))
            => /\ tasks'[t].out = "return"
               /\ tasks'[t].ret.subs = subscriptions']_vars

\* C1 witness: subscribe([30000142, 30002659]) then unsubscribe([30000142]),
\* one after the other, have left and returned {30002659}.
C1_Witness ==
    /\ ~overlap
    /\ subscriptions = {30002659}
    /\ \E t \in Tasks : /\ tasks[t].pc = "idle"
                        /\ tasks[t].op = "unsubscribe"
                        /\ tasks[t].out = "return"
                        /\ tasks[t].ret.subs = {30002659}

\* C2: when connect() receives its reply, a reply with status "ok" and a
\* subscription_id leaves the session running, stores the identifier and
\* returns a payload containing it; a reply with any other status makes
\* connect() raise a connection failure with running = false.
C2_ConnectOutcome ==
    [][\A t \in Tasks :
        (tasks[t].pc = "c_recv" /\ Returned(t) /\ RecvFrame(tasks[t].ws))
        => LET frame == Head(conns[tasks[t].ws].inbox)
           IN /\ (frame.event = "phx_reply" /\ frame.status = "ok" /\ frame.sid # 0)
                 => /\ running'
                    /\ subscription_id' = frame.sid
                    /\ tasks'[t].out = "return"
                    /\ tasks'[t].ret.sid = frame.sid
              /\ (frame.event = "phx_reply" /\ frame.status # "ok")
                 => /\ tasks'[t].out = "ConnectionFailure"
                    /\ ~running']_vars

\* C3: as long as no connect() has succeeded, every subscribe, unsubscribe
\* and get_status call has failed with the not-connected error: none is
\* past its guard, none has sent a frame, and self.subscriptions is empty.
C3_NoCommandBeforeJoin ==
    ~EverJoined
    => /\ \A t \in Tasks : tasks[t].pc \notin CommandPcs
       /\ \A t \in Tasks :
            (tasks[t].pc = "idle" /\ tasks[t].op \in Commands)
            => tasks[t].out = "NotConnected"
       /\ \A c \in Conns : \A i \in DOMAIN conns[c].sent :
            conns[c].sent[i].event \in {"phx_join", "phx_leave"}
       /\ subscriptions = {}

\* C4: on every transport, the refs of the frames sent are strictly
\* increasing in send order (hence pairwise distinct).
C4_RefsStrictlyIncreasing ==
    \A c \in Conns : \A i, j \in DOMAIN conns[c].sent :
        i < j => conns[c].sent[i].ref < conns[c].sent[j].ref

\* C5: once a joined session has left the running state, through
\* disconnect() or through the receive loop seeing the transport end,
\* running is never true again on that client object.
C5_ClosedIsTerminal == closed => ~running

\* C6: running = true implies that a join reply with status "ok" has been
\* received on the current transport.
C6_RunningImpliesJoined ==
    running => (websocket # 0 /\ conns[websocket].joined)

\* C7: connect() ends its wait only on the reply to its own join command
\* (a phx_reply carrying the join's ref) or on the end of the transport.
C7_ConnectWaitsForJoinReply ==
    [][\A t \in Tasks :
        (tasks[t].pc = "c_recv" /\ Returned(t))
        => \/ RecvClosed(tasks[t].ws)
           \/ /\ RecvFrame(tasks[t].ws)
              /\ Head(conns[tasks[t].ws].inbox).event = "phx_reply"
              /\ Head(conns[tasks[t].ws].inbox).ref = JoinRef]_vars

\* The receive loop l takes the next frame of its transport in this step.
Receives(l) ==
    /\ listeners[l].pc = "recv"
    /\ RecvFrame(listeners[l].ws)
    /\ listeners'[l].pc # "recv"

\* C8: a frame that is not JSON neither ends the receive loop nor clears
\* running (the loop is back at the top of its next iteration); and a loop
\* that has met such a frame still passes every well-formed frame it
\* receives to _handle_message.
C8_MalformedFrameNotFatal ==
    [][\A l \in Listeners :
        Receives(l)
        => LET frame == Head(conns[listeners[l].ws].inbox)
           IN /\ frame.raw = "garbage"
                 => /\ listeners'[l].pc = "top"
                    /\ running' = running
              /\ (listeners[l].skipped /\ frame.raw = "json")
                 => /\ listeners'[l].pc = "top"
                    /\ listeners'[l].msg = frame]_vars

\* C8 witness: a loop that has logged an undecodable frame has just passed
\* a kill_count_update to _handle_message, the session still running.
C8_Witness ==
    \E l \in Listeners :
        /\ listeners[l].skipped
        /\ listeners[l].pc = "top"
        /\ listeners[l].msg = Push("kill_count_update")
        /\ running

\* C9 as stated: after two disconnect() calls in succession on a joined
\* session, the second has not raised and has not attempted a send, and
\* exactly one leave frame was sent over both calls.
C9_SecondDisconnectSendsNothing ==
    (dd.n = 2 /\ dd.done = 2)
    => /\ tasks[dd.by].out = "return"
       /\ dd.tries = 0
       /\ dd.leaves1 + dd.leaves2 = 1

\* C9 amended: the second of two disconnect() calls in succession on a
\* joined session does not raise and hands no leave frame to the transport
\* (the send it attempts fails on the closed transport and the error is
\* swallowed): at most one leave frame is sent over both calls.
C9_SecondDisconnectNoFrame ==
    dd.n = 2
    => /\ dd.leaves2 = 0
       /\ dd.leaves1 + dd.leaves2 <= 1
       /\ dd.done = 2 => tasks[dd.by].out = "return"

\* C9 witness: both calls have returned; the first sent the leave frame,
\* the second attempted the send.
C9_Witness ==
    /\ dd.n = 2 /\ dd.done = 2
    /\ dd.leaves1 = 1
    /\ dd.tries = 1

\* C10: a disconnect() call never raises, and running is false when it
\* returns.
C10_DisconnectReturnsNotRunning ==
    [][\A t \in Tasks :
        (Returned(t) /\ tasks'[t].op = "disconnect")
        => /\ tasks'[t].out = "return"
           /\ ~running']_vars

\* A receive loop has ended on ConnectionClosed (break at line 91).
LoopBroken == \E l \in Listeners : listeners[l].pc = "break"

\* The loop l sees the end of its transport: recv() raises.
SeesClosed(l) ==
    /\ listeners[l].pc = "recv"
    /\ RecvClosed(listeners[l].ws)
    /\ listeners'[l].pc # "recv"

\* C11: when the transport ends while the receive loop waits on it, the
\* loop clears running and exits without raising into any caller, and from
\* then on every subscribe, unsubscribe and get_status call fails with
\* not-connected.
C11_TransportEndStopsSession ==
    [][/\ \A l \in Listeners :
            SeesClosed(l)
            => /\ listeners'[l].pc = "break"
               /\ ~running'
               /\ tasks' = tasks
       /\ \A t \in Tasks :
            (LoopBroken /\ Called(t) /\ tasks'[t].op \in Commands)
            => tasks'[t].out = "NotConnected"]_vars

\* The commands sent on transport c whose reply no coroutine has received
\* yet (the server answers in order; replies still queued are outstanding).
Outstanding(c) ==
    LET queued == Cardinality({i \in 1..Len(conns[c].inbox) :
                                  conns[c].inbox[i].event = "phx_reply"})
    IN {i \in 1..Len(conns[c].sent) : i > conns[c].acked - queued}

\* C12: every phx_reply frame the receive loop dispatches matches, by its
\* ref, exactly one command sent earlier whose reply is outstanding.
C12_ReplyMatchesOneCommand ==
    [][\A l \in Listeners :
        LET c == listeners[l].ws
            frame == Head(conns[c].inbox)
        IN (Receives(l) /\ frame.event = "phx_reply")
           => Cardinality({i \in Outstanding(c) :
                              conns[c].sent[i].ref = frame.ref}) = 1]_vars

\* C13: no well-formed frame ends the receive loop: after it dispatches a
\* phx_reply with a status other than "ok", or a frame with an event it has
\* no branch for, the loop is back at its top and running is as it was; the
\* loop ends only when its transport has terminated or running is false.
C13_WellFormedFrameNotFatal ==
    [][\A l \in Listeners :
        /\ LET frame == Head(conns[listeners[l].ws].inbox)
           IN (Receives(l) /\ frame.raw = "json")
              => /\ listeners'[l].pc = "top"
                 /\ listeners'[l].msg = frame
                 /\ running' = running
        /\ (listeners[l].pc \in {"top", "recv"}
            /\ listeners'[l].pc \in {"done", "break"})
           => \/ SeesClosed(l)
              \/ listeners[l].pc = "top" /\ ~running]_vars

\* C13 witness: a loop has dispatched a reply with status "error" and is
\* back at the top of the loop, the session still running.
C13_Witness ==
    /\ running
    /\ \E l \in Listeners :
          /\ listeners[l].pc = "top"
          /\ listeners[l].msg.event = "phx_reply"
          /\ listeners[l].msg.status = "error"

\* C14: dispatching an inbound frame of any kind (killmail_update,
\* kill_count_update, phx_reply with any status, any other event) leaves
\* subscriptions, subscription_id and running as they were; a failed reply
\* to a subscribe or unsubscribe command does not roll the set back.
C14_DispatchKeepsState ==
    [][\A l \in Listeners :
        LET frame == Head(conns[listeners[l].ws].inbox)
        IN (Receives(l) /\ frame.raw = "json"
            /\ frame.event \in PushEvents \cup {"phx_reply"}
            /\ frame.status \in Statuses \cup {"none"})
           => /\ listeners'[l].msg = frame
              /\ subscriptions' = subscriptions
              /\ subscription_id' = subscription_id
              /\ running' = running]_vars

\* C14 witness: the loop has dispatched the failed reply to a subscribe
\* command and the set still holds systems.
C14_Witness ==
    /\ subscriptions # {}
    /\ \E l \in Listeners :
          /\ listeners[l].pc = "top"
          /\ listeners[l].msg = Reply(SubscribeRef, "error", 0)

\* The loop l starts a receive: recv() is called at line 87.
StartsReceive(l) == listeners[l].pc = "top" /\ listeners'[l].pc = "recv"

\* C15: once disconnect() has cleared running, a receive loop that was
\* alive at that moment starts no further receive: it dispatches at most
\* the frame whose receive was in progress and exits at its next test of
\* running; and no loop starts a receive when running is false.
C15_NoReceiveAfterDisconnect ==
    [][\A l \in Listeners :
        StartsReceive(l) => (running /\ ~listeners[l].stopped)]_vars

\* Steps of the queue of transport c: a frame arrives at its back; the
\* frame at its front is taken by a recv().
Arrives(c) ==
    /\ Len(conns'[c].inbox) = Len(conns[c].inbox) + 1
    /\ SubSeq(conns'[c].inbox, 1, Len(conns[c].inbox)) = conns[c].inbox
TakesFront(c) ==
    /\ conns[c].inbox # <<>>
    /\ conns'[c].inbox = Tail(conns[c].inbox)

\* C16: every frame the transport delivers after the join reply is
\* dispatched to the handler exactly once and in arrival order: the queue
\* of a joined transport changes only by an arrival at its back or by a
\* receive loop taking the frame at its front, and the loop hands that
\* frame to _handle_message in the same step; sending commands leaves the
\* queue alone.
C16_EveryFrameDispatchedInOrder ==
    [][\A c \in Conns :
        (conns[c].joined /\ conns'[c].inbox # conns[c].inbox)
        => \/ Arrives(c)
           \/ /\ TakesFront(c)
              /\ \E l \in Listeners :
                    /\ Receives(l) /\ listeners[l].ws = c
                    /\ listeners'[l].msg = Head(conns[c].inbox)]_vars

\* C16 amended: as C16 for every well-formed frame; a frame that is not
\* JSON is taken from the front of the queue in its turn and is not
\* dispatched (the handler is not called, the last message stays).
C16_WellFormedDispatchedInOrder ==
    [][\A c \in Conns :
        (conns[c].joined /\ conns'[c].inbox # conns[c].inbox)
        => \/ Arrives(c)
           \/ /\ TakesFront(c)
              /\ \E l \in Listeners :
                    /\ Receives(l) /\ listeners[l].ws = c
                    /\ listeners'[l].msg =
                          IF Head(conns[c].inbox).raw = "json"
                          THEN Head(conns[c].inbox)
                          ELSE listeners[l].msg]_vars

\* C16 witness: a loop has dispatched a well-formed frame after it skipped
\* one that is not JSON, a later frame is queued on the transport, and a
\* command is being sent.
C16_Witness ==
    /\ Joined
    /\ conns[websocket].inbox # <<>>
    /\ \E t \in Tasks : tasks[t].pc \in CommandPcs
    /\ \E l \in Listeners :
          /\ listeners[l].pc = "top"
          /\ listeners[l].skipped
          /\ listeners[l].msg.raw = "json"

\* The call of t applies its update of the set: the step after the await
\* on send() in subscribe_to_systems / unsubscribe_from_systems.
Updates(t) == tasks[t].pc \in {"s_send", "u_send"} /\ Returned(t)

\* C17: the subscriptions set is updated only while the session is
\* running: no subscribe or unsubscribe call applies its update in a state
\* where running is false.
C17_UpdateOnlyWhileRunning ==
    [][\A t \in Tasks : Updates(t) => running]_vars

\* C17 amended: the set is changed only by a subscribe or unsubscribe call
\* that completes its send, and every such call found running true and a
\* transport present at its guard and handed its frame to the transport;
\* running is not tested again after the await.
C17_UpdateOnlyAfterGuard ==
    [][/\ subscriptions' # subscriptions => \E t \in Tasks : Updates(t)
       /\ \A t \in Tasks :
            (Called(t) /\ tasks'[t].pc \in {"s_send", "u_send"})
            => /\ running /\ websocket # 0
               /\ Len(conns'[websocket].sent) = Len(conns[websocket].sent) + 1]_vars

\* C17 witness: a call has applied its update while running was false and
\* the set holds systems.
C17_Witness ==
    /\ late
    /\ ~running
    /\ subscriptions # {}

\* The receive loops that are alive: created and not ended.
ActiveLoops == {l \in Listeners : listeners[l].pc \in {"top", "recv"}}

\* C18: at most one receive loop is alive per client at any time, whatever
\* the sequence of connect() and disconnect() calls: connect() starts no
\* second loop while an earlier one is alive.
C18_AtMostOneLoop == Cardinality(ActiveLoops) <= 1

\* The command frame of the call t is making.
CommandFrame(t) ==
    IF tasks[t].op = "subscribe" THEN subscribe_message ELSE unsubscribe_message

\* C19: when send() fails inside subscribe_to_systems or
\* unsubscribe_from_systems (the guard passed, the transport is closed) the
\* call raises and leaves the subscriptions set as it was; a call applies
\* its update only after its frame has been handed to the transport.
C19_FailedSendKeepsSet ==
    [][\A t \in Tasks :
        /\ (Called(t) /\ tasks'[t].op \in {"subscribe", "unsubscribe"}
            /\ running /\ websocket # 0 /\ ~conns[websocket].open)
           => /\ tasks'[t].pc = "idle"
              /\ tasks'[t].out = "ConnectionClosed"
              /\ subscriptions' = subscriptions
              /\ conns' = conns
        /\ Updates(t)
           => \E c \in Conns : \E i \in 1..Len(conns[c].sent) :
                 conns[c].sent[i] = CommandFrame(t)]_vars

\* C19 witness: a subscribe call has raised on the closed transport and
\* the set is empty, as before the call.
C19_Witness ==
    /\ subscriptions = {}
    /\ \E t \in Tasks :
          /\ tasks[t].pc = "idle"
          /\ tasks[t].op = "subscribe"
          /\ tasks[t].out = "ConnectionClosed"

====
